---- MODULE Spec2Model ----
(***************************************************************************)
(* A model of bot.py: the gift ingestor (on_gift), the aggregator          *)
(* (top5_week, finalize_week), the period scheduler (schedule_loop), the   *)
(* connection manager (connect_loop), the health monitor (health_loop),    *)
(* connection_flag_loop and the persistent store they share.               *)
(*                                                                         *)
(* Text is modelled as a sequence of one-character strings, so that        *)
(* formatting, lower-casing and substring tests are computed, not assumed. *)
(* Time is the variable clock: seconds of local wall-clock time since      *)
(* Monday 2024-01-01 00:00:00 (the first day of ISO week 2024-W01).        *)
(***************************************************************************)
EXTENDS Integers, Sequences, FiniteSets, TLC

VARIABLES
    clock,        \* local wall-clock time, in seconds since Mon 2024-01-01 00:00
    proc,         \* "running" | "crashed" | "aborted": the operating-system process
    run,          \* how many times the process has been started again
    gifts,        \* table gifts: the rows in insertion (id) order
    weekly_top5,  \* table weekly_top5: a set of rows, unique on (week_id, rank)
    meta,         \* table meta: a function from the keys present to their values
    state,        \* the dict state of run(): connected, last_event_utc
    sched,        \* schedule_loop: its position and locals
    posts,        \* history: the messages the webhook accepted, in order
    conn,         \* connect_loop: its position and locals (backoff, msg)
    calls,        \* history: the gift callbacks handled so far
    result,       \* the rows returned by the last stand-alone top5_week query
    health,       \* health_loop: its position
    flag          \* connection_flag_loop: its position

vars == <<clock, proc, run, gifts, weekly_top5, meta, state, sched, posts, conn,
          calls, result, health, flag>>

(***************************************************************************)
(* Bounds of the model.                                                    *)
(***************************************************************************)
MaxDay == 6        \* the last day on which a window of the clock starts (0 = Monday of week 1)
MaxPostTicks == 3  \* the webhook answers within this many scheduler sleeps
MaxRestarts == 1   \* process restarts in one behaviour
MaxGifts == 2      \* rows of table gifts
MaxCalls == 1      \* gift callbacks while the scheduler is explored
MaxIngestCalls == 3    \* gift callbacks while the ingestor is explored
MaxIngestSeconds == 4  \* seconds that pass while the ingestor is explored
MaxConnClock == 900    \* the clock's last second while the connection manager is explored
NumGifters == 6        \* gifters of the tables the aggregator is explored on
MaxPosts == 3      \* accepted posts recorded in one behaviour
MaxSumRows == 4    \* rows of the tables the totals are explored on
MaxLinkClock == 300    \* the clock's last second while the link is explored
MaxLinkGifts == 1      \* gift callbacks while the link is explored

(***************************************************************************)
(* Configuration: the defaults of the environment variables.               *)
(***************************************************************************)
OFFLINE_RETRY_SECONDS == 120
ERROR_RETRY_SECONDS == 60
DAILY_POST_HOUR == 0
DAILY_POST_MINUTE == 0
SUNDAY_FINAL_HOUR == 23
SUNDAY_FINAL_MINUTE == 59
SCHEDULE_SLEEP == 20
HEALTH_INTERVAL_SECONDS == 60
STALE_CONNECTION_SECONDS == 180
FLAG_SLEEP == 5
FLAG_FRESH_SECONDS == 10

(***************************************************************************)
(* Text.                                                                   *)
(***************************************************************************)
Min(a, b) == IF a < b THEN a ELSE b
Max(a, b) == IF a > b THEN a ELSE b

Digit == <<"0", "1", "2", "3", "4", "5", "6", "7", "8", "9">>

\* str(n) for n >= 0, as f"{n}" renders it
RECURSIVE Dec(_)
Dec(n) == IF n < 10 THEN <<Digit[n + 1]>> ELSE Dec(n \div 10) \o <<Digit[(n % 10) + 1]>>

\* f"{n:02d}"
Pad2(n) == IF n < 10 THEN <<"0">> \o Dec(n) ELSE Dec(n)

unknown == <<"u", "n", "k", "n", "o", "w", "n">>

(***************************************************************************)
(* The calendar: now_local(), isocalendar(), date().isoformat().  The      *)
(* model's horizon lies inside January 2024, in one UTC offset (+01:00).   *)
(***************************************************************************)
HourLen == 60 * 60
MinuteLen == HourLen \div 60
DayLen == 24 * HourLen
WeekLen == 7 * DayLen
\* the unix time of clock = 0: 2024-01-01T00:00:00+01:00
UnixAtZero == 1704067200 - 3600

hour(t) == (t % DayLen) \div HourLen
minute(t) == (t % HourLen) \div MinuteLen
isoweekday(t) == ((t \div DayLen) % 7) + 1
isoweek(t) == (t \div WeekLen) + 1
isoyear(t) == 2024
\* now.date().isoformat(): YYYY-MM-DD
date_isoformat(t) ==
    Dec(isoyear(t)) \o <<"-", "0", "1", "-">> \o Pad2((t \div DayLen) + 1)
\* current_week()[0]: f"{y}-W{w:02d}"
week_id_at(t) == Dec(isoyear(t)) \o <<"-", "W">> \o Pad2(isoweek(t))

(***************************************************************************)
(* Table meta.                                                             *)
(***************************************************************************)
NoMeta == [k \in {} |-> <<>>]

meta_get(m, key) == IF key \in DOMAIN m THEN m[key] ELSE <<>>

meta_set(m, key, value) ==
    [k \in (DOMAIN m) \cup {key} |-> IF k = key THEN value ELSE m[k]]

(***************************************************************************)
(* The aggregator.                                                         *)
(***************************************************************************)
\* the rows of every week
RowsOfAnyWeek(g, week_id) == DOMAIN g

\* WHERE week_id=?
RowsOfWeek(g, week_id) == {i \in DOMAIN g : g[i].week_id = week_id}

RECURSIVE SumDiamonds(_, _)
SumDiamonds(g, I) ==
    IF I = {} THEN 0
    ELSE LET i == CHOOSE j \in I : TRUE
         IN  g[i].diamonds * g[i].amount + SumDiamonds(g, I \ {i})

\* GROUP BY gifter_username with SUM(diamonds * amount)
GroupByGifter(g, week_id) ==
    { <<u, SumDiamonds(g, {i \in RowsOfWeek(g, week_id) : g[i].gifter_username = u})>> :
        u \in {g[i].gifter_username : i \in RowsOfWeek(g, week_id)} }

\* the groups by ascending total
RECURSIVE OrderByTotalAsc(_)
OrderByTotalAsc(G) ==
    IF G = {} THEN {<<>>}
    ELSE UNION { { <<x>> \o s : s \in OrderByTotalAsc(G \ {x}) } :
                 x \in {y \in G : \A z \in G : z[2] >= y[2]} }

\* ORDER BY 2 DESC: every order of the groups that a sort by total alone can
\* produce; the query names no second sort key, so the order among equal
\* totals is the engine's choice (SQLite 3.40 returns zed, bob, alice for
\* equal totals inserted as bob, alice, zed).
RECURSIVE OrderByTotalDesc(_)
OrderByTotalDesc(G) ==
    IF G = {} THEN {<<>>}
    ELSE UNION { { <<x>> \o s : s \in OrderByTotalDesc(G \ {x}) } :
                 x \in {y \in G : \A z \in G : z[2] <= y[2]} }

\* no LIMIT
NoLimit(s, n) == s

\* LIMIT n
Limit(s, n) == SubSeq(s, 1, Min(n, Len(s)))

\* top5_week(con, week_id): the set of results the query may return
top5_week(g, week_id) == { Limit(s, 5) : s \in OrderByTotalDesc(GroupByGifter(g, week_id)) }

\* finalize_week, given the rows its top5_week query returned: INSERT OR IGNORE
\* of one row per rank, ignored where (week_id, rank) is already present
finalize_week(t, week_id, rows, now) ==
    t \cup { [week_id |-> week_id, rank |-> i, gifter_username |-> rows[i][1],
              total_diamonds |-> rows[i][2], created_at_utc |-> now] :
             i \in {j \in 1..Len(rows) :
                      \A r \in t : ~(r.week_id = week_id /\ r.rank = j)} }

(***************************************************************************)
(* Start-up configuration (lines 14-35).                                   *)
(***************************************************************************)
IsSpace(c) == c \in {" ", "\t", "\n"}

RECURSIVE lstrip_at(_)
lstrip_at(s) == IF s # <<>> /\ Head(s) = "@" THEN lstrip_at(Tail(s)) ELSE s

RECURSIVE lstrip(_)
lstrip(s) == IF s # <<>> /\ IsSpace(Head(s)) THEN lstrip(Tail(s)) ELSE s

RECURSIVE rstrip(_)
rstrip(s) ==
    IF s # <<>> /\ IsSpace(s[Len(s)]) THEN rstrip(SubSeq(s, 1, Len(s) - 1)) ELSE s

strip(s) == rstrip(lstrip(s))

\* the values the two mandatory environment variables may hold
EnvStreamer == { <<>>, <<"@">>, <<"@", " ">>, <<"@", "h">>, <<"h">> }
EnvWebhook == { <<>>, <<" ">>, <<"w">> }

\* lines 32-35: SystemExit unless both are non-empty after normalisation
ConfigAccepted(streamer, webhook) ==
    strip(lstrip_at(streamer)) # <<>> /\ strip(webhook) # <<>>

(***************************************************************************)
(* The gift callback on_gift (lines 181-216).                              *)
(***************************************************************************)
\* getattr(e.user, "unique_id", None) or getattr(e.user, "nickname", None) or "unknown"
\* (None and "" are both falsy: the model writes both as the empty text)
gifter_of(e) ==
    IF e.unique_id # <<>> THEN e.unique_id
    ELSE IF e.nickname # <<>> THEN e.nickname ELSE unknown

gift_name_of(e) == IF e.name # <<>> THEN e.name ELSE unknown

\* int(getattr(gift, "diamond_count", 0) or 0)
diamonds_of(e) == e.diamond_count

\* stable_amount_from_gift: the first of repeat_count, repeat_total that is a
\* positive int, else 1 (a missing attribute is written 0)
stable_amount_from_gift(e) ==
    IF e.repeat_count > 0 THEN e.repeat_count
    ELSE IF e.repeat_total > 0 THEN e.repeat_total ELSE 1

\* a bucket of four seconds
BucketOfFour(ts) == (UnixAtZero + ts) \div 4

\* line 162: int(ts_utc.timestamp()) // 2
Bucket(ts) == (UnixAtZero + ts) \div 2

\* the key with the second itself in place of its bucket
make_event_key_per_second(week_id, user, gift_name, diamonds, amount, ts) ==
    week_id \o <<"|">> \o user \o <<"|">> \o gift_name \o <<"|">> \o Dec(diamonds)
        \o <<"|">> \o Dec(amount) \o <<"|">> \o Dec(UnixAtZero + ts)

\* make_event_key: the text that is hashed.  SHA-1 is taken to be free of
\* collisions, so the key is identified with the text it is computed from.
make_event_key(week_id, user, gift_name, diamonds, amount, ts) ==
    week_id \o <<"|">> \o user \o <<"|">> \o gift_name \o <<"|">> \o Dec(diamonds)
        \o <<"|">> \o Dec(amount) \o <<"|">> \o Dec(Bucket(ts))

HasKey(g, key) == \E i \in DOMAIN g : g[i].event_key = key

\* INSERT OR IGNORE INTO gifts: event_key is UNIQUE
insert_or_ignore(g, row) == IF HasKey(g, row.event_key) THEN g ELSE Append(g, row)

\* lines 183-192 and 199-207: the row the handler builds for the raw event e
\* when current_week() answers week_id and the clock then reads t
GiftRow(e, week_id, t) ==
    LET user == gifter_of(e)
        gift_name == gift_name_of(e)
        diamonds == diamonds_of(e)
        amount == stable_amount_from_gift(e)
    IN  [event_key |-> make_event_key(week_id, user, gift_name, diamonds, amount, t),
         week_id |-> week_id, gifter_username |-> user, gift_name |-> gift_name,
         amount |-> amount, diamonds |-> diamonds, created_at_utc |-> t]

\* current_week() at line 189 reads the clock before line 190 does: it may
\* fall in the second before
WeekReads(t) == {week_id_at(t - 1), week_id_at(t)}

\* history: what a callback was about
Call(row) ==
    [week_id |-> row.week_id, user |-> row.gifter_username, gift_name |-> row.gift_name,
     diamonds |-> row.diamonds, amount |-> row.amount, ts |-> row.created_at_utc]

\* the handler leaving last_event_utc alone when the row was ignored
on_gift_idle_on_duplicate(e) ==
    /\ proc = "running"
    /\ Len(gifts) < MaxGifts
    /\ \E week_id \in WeekReads(clock) :
        LET row == GiftRow(e, week_id, clock)
            cur_rowcount == IF HasKey(gifts, row.event_key) THEN 0 ELSE 1
        IN  /\ gifts' = insert_or_ignore(gifts, row)
            /\ state' = IF cur_rowcount = 1
                        THEN [state EXCEPT !.last_event_utc = row.created_at_utc]
                        ELSE state
            /\ calls' = calls \cup {Call(row)}
    /\ UNCHANGED <<clock, proc, run, weekly_top5, meta, sched, posts, conn, result, health, flag>>

\* The handler, for the raw event e.  It holds no await, so it runs as one
\* step.  Both branches of line 211 set last_event_utc.
on_gift(e) ==
    /\ proc = "running"
    /\ Len(gifts) < MaxGifts
    /\ \E week_id \in WeekReads(clock) :
        LET row == GiftRow(e, week_id, clock)
            cur_rowcount == IF HasKey(gifts, row.event_key) THEN 0 ELSE 1
        IN  /\ gifts' = insert_or_ignore(gifts, row)
            /\ state' = IF cur_rowcount = 1
                        THEN [state EXCEPT !.last_event_utc = row.created_at_utc]
                        ELSE [state EXCEPT !.last_event_utc = row.created_at_utc]
            /\ calls' = calls \cup {Call(row)}
    /\ UNCHANGED <<clock, proc, run, weekly_top5, meta, sched, posts, conn, result, health, flag>>

(***************************************************************************)
(* discord_post (lines 107-111) and schedule_loop (lines 218-245).         *)
(*                                                                         *)
(* sched.pc is where the task stands:                                      *)
(*   "sleep"       in asyncio.sleep(20) until wake_at (line 245; at boot   *)
(*                 the task is due at once)                                *)
(*   "daily_post"  awaiting discord_post of the in-progress message (227)  *)
(*   "daily_mark"  the post returned; meta_set("last_daily") is next (231) *)
(*   "final_post"  awaiting discord_post of the final message (238)        *)
(*   "final_mark"  the post returned; meta_set("last_final") is next (242) *)
(*   "daily_raised", "final_raised"  discord_post raised RuntimeError in   *)
(*                 that await.  No statement of the loop catches it, so    *)
(*                 it leaves schedule_loop, asyncio.gather (line 340)      *)
(*                 raises it in run(), and asyncio.run (line 344) ends the *)
(*                 process.                                                *)
(* Code between two awaits runs without interleaving, so it is one step.   *)
(***************************************************************************)
\* wake_at is the end of the sleep, or the time the pending post was sent;
\* now and week_id are the locals of lines 220-221; rows are the rows of the
\* message being posted.  status and meta0 are history: the status code
\* that made discord_post raise, and table meta as the last wake found it.
SchedBoot(t) ==
    [pc |-> "sleep", wake_at |-> t, now |-> 0, week_id |-> <<>>, rows |-> <<>>,
     status |-> 0, meta0 |-> NoMeta]

\* line 245
SchedSleep(s, t) == [s EXCEPT !.pc = "sleep", !.wake_at = t + SCHEDULE_SLEEP, !.rows = <<>>]

\* the HTTP status codes the webhook answers with
Statuses == {204, 299, 300}

\* line 110
discord_post_raises(status) == status >= 300

\* the in-progress trigger without the test of line 226
DailyDueIgnoringMarker(now, m) ==
    /\ hour(now) = DAILY_POST_HOUR
    /\ minute(now) = DAILY_POST_MINUTE

\* line 225 and line 226
DailyDue(now, m) ==
    /\ hour(now) = DAILY_POST_HOUR
    /\ minute(now) = DAILY_POST_MINUTE
    /\ meta_get(m, "last_daily") # date_isoformat(now)

\* the final trigger without the test of line 236
FinalDueIgnoringMarker(now, week_id, m) ==
    /\ isoweekday(now) = 7
    /\ hour(now) = SUNDAY_FINAL_HOUR
    /\ minute(now) = SUNDAY_FINAL_MINUTE

\* line 235 and line 236
FinalDue(now, week_id, m) ==
    /\ isoweekday(now) = 7
    /\ hour(now) = SUNDAY_FINAL_HOUR
    /\ minute(now) = SUNDAY_FINAL_MINUTE
    /\ meta_get(m, "last_final") # week_id

\* now_local() at line 220 is read before current_week() at line 221: the
\* first read may fall in the second before the one the second read falls in
NowReads(t) == {t - 1, t}

\* Lines 234-245 for the locals s, with the marker table m as the daily
\* block left it: finalize_week, the message rows of line 240 and the await
\* of line 238, or else the sleep of line 245.  The query of finalize_week
\* and the query of line 240 read the same table in the same step, so they
\* return the same rows.
FinalBlock(s, m) ==
    IF FinalDue(s.now, s.week_id, m)
    THEN \E rows \in top5_week(gifts, s.week_id) :
            /\ weekly_top5' = finalize_week(weekly_top5, s.week_id, rows, clock)
            /\ sched' = [s EXCEPT !.pc = "final_post", !.rows = rows, !.wake_at = clock]
    ELSE /\ weekly_top5' = weekly_top5
         /\ sched' = SchedSleep(s, clock)

\* One wake: lines 220-226, and on to the first await.
SchedWake ==
    /\ proc = "running"
    /\ sched.pc = "sleep"
    /\ clock >= sched.wake_at
    /\ \E now \in NowReads(clock) :
        LET s == [sched EXCEPT !.now = now, !.week_id = week_id_at(clock),
                               !.meta0 = meta]
        IN  IF DailyDue(now, meta)
            THEN /\ \E rows \in top5_week(gifts, s.week_id) :
                        sched' = [s EXCEPT !.pc = "daily_post", !.rows = rows,
                                           !.wake_at = clock]
                 /\ weekly_top5' = weekly_top5
            ELSE FinalBlock(s, meta)
    /\ UNCHANGED <<clock, proc, run, gifts, meta, state, posts, conn, calls, result, health, flag>>

Post(kind, id) ==
    [kind |-> kind, id |-> id, week_id |-> sched.week_id, rows |-> sched.rows,
     run |-> run, marked |-> FALSE]

\* The webhook answers the in-progress post with a status code.
DailyPostReply ==
    /\ proc = "running"
    /\ sched.pc = "daily_post"
    /\ \E status \in Statuses :
        IF discord_post_raises(status)
        THEN /\ sched' = [sched EXCEPT !.pc = "daily_raised", !.status = status]
             /\ proc' = "crashed"
             /\ posts' = posts
        ELSE /\ Len(posts) < MaxPosts
             /\ sched' = [sched EXCEPT !.pc = "daily_mark"]
             /\ proc' = proc
             /\ posts' = Append(posts, Post("daily", date_isoformat(sched.now)))
    /\ UNCHANGED <<clock, run, gifts, weekly_top5, meta, state, conn, calls, result, health, flag>>

MarkLast(p) == [p EXCEPT ![Len(p)].marked = TRUE]

\* Line 231, and on through the final block to the next await.
DailyMark ==
    /\ proc = "running"
    /\ sched.pc = "daily_mark"
    /\ meta' = meta_set(meta, "last_daily", date_isoformat(sched.now))
    /\ posts' = MarkLast(posts)
    /\ FinalBlock(sched, meta')
    /\ UNCHANGED <<clock, proc, run, gifts, state, conn, calls, result, health, flag>>

\* the final post with last_final written whatever the answer is
FinalPostReplyMarkingAnyway ==
    /\ proc = "running"
    /\ sched.pc = "final_post"
    /\ meta' = meta_set(meta, "last_final", sched.week_id)
    /\ \E status \in Statuses :
        IF discord_post_raises(status)
        THEN /\ sched' = [sched EXCEPT !.pc = "final_raised", !.status = status]
             /\ proc' = "crashed"
             /\ posts' = posts
        ELSE /\ Len(posts) < MaxPosts
             /\ sched' = [sched EXCEPT !.pc = "final_mark"]
             /\ proc' = proc
             /\ posts' = Append(posts, Post("final", sched.week_id))
    /\ UNCHANGED <<clock, run, gifts, weekly_top5, state, conn, calls, result, health, flag>>

\* The webhook answers the final post with a status code.
FinalPostReply ==
    /\ proc = "running"
    /\ sched.pc = "final_post"
    /\ \E status \in Statuses :
        IF discord_post_raises(status)
        THEN /\ sched' = [sched EXCEPT !.pc = "final_raised", !.status = status]
             /\ proc' = "crashed"
             /\ posts' = posts
        ELSE /\ Len(posts) < MaxPosts
             /\ sched' = [sched EXCEPT !.pc = "final_mark"]
             /\ proc' = proc
             /\ posts' = Append(posts, Post("final", sched.week_id))
    /\ UNCHANGED <<clock, run, gifts, weekly_top5, meta, state, conn, calls, result, health, flag>>

\* Line 242, then the sleep of line 245.
FinalMark ==
    /\ proc = "running"
    /\ sched.pc = "final_mark"
    /\ meta' = meta_set(meta, "last_final", sched.week_id)
    /\ posts' = MarkLast(posts)
    /\ sched' = SchedSleep(sched, clock)
    /\ UNCHANGED <<clock, proc, run, gifts, weekly_top5, state, conn, calls, result, health, flag>>

(***************************************************************************)
(* connect_loop (lines 266-321).                                           *)
(*                                                                         *)
(* conn.pc is where the task stands:                                       *)
(*   "disconnect"      awaiting client.disconnect() before a start (277)   *)
(*   "start"           awaiting client.start() (281)                       *)
(*   "sleep"           start() returned; asyncio.sleep(backoff) (286)      *)
(*   "err_disconnect"  start() raised; awaiting client.disconnect() (313)  *)
(*   "err_sleep"       asyncio.sleep(backoff) of the except block (317)    *)
(* prev is history: the backoff the except block found.                    *)
(* live tells whether the client holds an established session.  torn and   *)
(* clean are history: torn, that this iteration has called the teardown of *)
(* line 277; clean, that the last call of start() was made with torn.      *)
(* last is history: how the last call of start() came back.                *)
(***************************************************************************)
UpperCase == <<"A", "B", "C", "D", "E", "F", "G", "H", "I", "J", "K", "L", "M", "N", "O", "P", "Q", "R", "S", "T", "U", "V", "W", "X", "Y", "Z">>
LowerCase == <<"a", "b", "c", "d", "e", "f", "g", "h", "i", "j", "k", "l", "m", "n", "o", "p", "q", "r", "s", "t", "u", "v", "w", "x", "y", "z">>

lower_char(c) ==
    IF \E i \in DOMAIN UpperCase : UpperCase[i] = c
    THEN LowerCase[CHOOSE i \in DOMAIN UpperCase : UpperCase[i] = c]
    ELSE c

\* str.lower()
lower(s) == [i \in DOMAIN s |-> lower_char(s[i])]

\* pat in s
Contains(s, pat) ==
    \E i \in 0..(Len(s) - Len(pat)) : SubSeq(s, i + 1, i + Len(pat)) = pat

\* the texts of the exceptions client.start() raises
\* "Offline"
TextOffline ==
    <<"O", "f", "f", "l", "i", "n", "e">>
\* "ERR 504 timeout"
TextTimeout ==
    <<"E", "R", "R", " ", "5", "0", "4", " ", "t", "i", "m", "e", "o", "u", "t">>
\* "One Connection reached"
TextOneConnection ==
    <<"O", "n", "e", " ", "C", "o", "n", "n", "e", "c", "t", "i", "o", "n", " ", "r", "e", "a", "c", "h", "e", "d">>
\* "disk full"
TextDiskFull ==
    <<"d", "i", "s", "k", " ", "f", "u", "l", "l">>
\* "status code 500"
TextStatus500 ==
    <<"s", "t", "a", "t", "u", "s", " ", "c", "o", "d", "e", " ", "5", "0", "0">>
\* "Sign: user OFFLINE"
TextSignOffline ==
    <<"S", "i", "g", "n", ":", " ", "u", "s", "e", "r", " ", "O", "F", "F", "L", "I", "N", "E">>
\* "One connection, SIGN"
TextOneConnectionSign ==
    <<"O", "n", "e", " ", "c", "o", "n", "n", "e", "c", "t", "i", "o", "n", ",", " ", "S", "I", "G", "N">>

ErrorTexts ==
    {TextOffline, TextTimeout, TextOneConnection, TextDiskFull,
     TextStatus500, TextSignOffline, TextOneConnectionSign}

max_backoff == 600

\* the tests of lines 294 and 299 in the other order
next_backoff_sign_first(low, backoff) ==
    IF \/ Contains(low, <<"s", "i", "g", "n">>)
       \/ Contains(low, <<"5", "0", "4">>)
       \/ Contains(low, <<"s", "t", "a", "t", "u", "s", " ", "c", "o", "d", "e", " ", "5", "0", "0">>)
    THEN Min(max_backoff, Max(60, backoff * 2))
    ELSE IF Contains(low, <<"o", "f", "f", "l", "i", "n", "e">>) THEN OFFLINE_RETRY_SECONDS
    ELSE IF Contains(low, <<"o", "n", "e", " ", "c", "o", "n", "n", "e", "c", "t", "i", "o", "n">>) THEN 10
    ELSE ERROR_RETRY_SECONDS

\* lines 294-310: the backoff the except block chooses for the lower-cased
\* error text low, having found backoff
next_backoff(low, backoff) ==
    IF Contains(low, <<"o", "f", "f", "l", "i", "n", "e">>) THEN OFFLINE_RETRY_SECONDS
    ELSE IF \/ Contains(low, <<"s", "i", "g", "n">>)
            \/ Contains(low, <<"5", "0", "4">>)
            \/ Contains(low, <<"s", "t", "a", "t", "u", "s", " ", "c", "o", "d", "e", " ", "5", "0", "0">>)
         THEN Min(max_backoff, Max(60, backoff * 2))
    ELSE IF Contains(low, <<"o", "n", "e", " ", "c", "o", "n", "n", "e", "c", "t", "i", "o", "n">>) THEN 10
    ELSE ERROR_RETRY_SECONDS

ConnBoot(t) ==
    [pc |-> "disconnect", backoff |-> OFFLINE_RETRY_SECONDS, prev |-> OFFLINE_RETRY_SECONDS,
     msg |-> <<>>, wake_at |-> t, live |-> FALSE, torn |-> TRUE, clean |-> TRUE,
     last |-> "none"]

StateBoot(t) == [connected |-> FALSE, last_event_utc |-> t]

\* health_loop and connection_flag_loop run their first iteration at once
HealthBoot(t) == [pc |-> "sleep", wake_at |-> t]
FlagBoot(t) == [wake_at |-> t]

\* Lines 276-279: the teardown before a start returns, or raises and is ignored.
ConnTeardown ==
    /\ proc = "running"
    /\ conn.pc = "disconnect"
    /\ conn' = [conn EXCEPT !.pc = "start", !.clean = conn.torn, !.torn = FALSE]
    /\ UNCHANGED <<clock, proc, run, gifts, weekly_top5, meta, state, sched, posts,
                   calls, result, health, flag>>

\* Lines 281-286: client.start() returns, the session having ended.
ConnEnded ==
    /\ proc = "running"
    /\ conn.pc = "start"
    /\ state' = [state EXCEPT !.connected = FALSE]
    /\ conn' = [conn EXCEPT !.pc = "sleep", !.backoff = OFFLINE_RETRY_SECONDS,
                            !.wake_at = clock + OFFLINE_RETRY_SECONDS,
                            !.live = FALSE, !.last = "ended"]
    /\ UNCHANGED <<clock, proc, run, gifts, weekly_top5, meta, sched, posts, calls, result, health, flag>>

\* Lines 288-313: client.start() raises an exception whose text is msg.
ConnError(msg) ==
    /\ proc = "running"
    /\ conn.pc = "start"
    /\ state' = [state EXCEPT !.connected = FALSE]
    /\ conn' = [conn EXCEPT !.pc = "err_disconnect", !.msg = msg, !.prev = conn.backoff,
                            !.backoff = next_backoff(lower(msg), conn.backoff),
                            !.live = FALSE, !.last = "error"]
    /\ UNCHANGED <<clock, proc, run, gifts, weekly_top5, meta, sched, posts, calls, result, health, flag>>

\* the except block sleeping the generic interval whatever backoff it chose
ConnErrTeardownFixedSleep ==
    /\ proc = "running"
    /\ conn.pc = "err_disconnect"
    /\ conn' = [conn EXCEPT !.pc = "err_sleep", !.wake_at = clock + ERROR_RETRY_SECONDS]
    /\ UNCHANGED <<clock, proc, run, gifts, weekly_top5, meta, state, sched, posts,
                   calls, result, health, flag>>

\* Lines 312-317: the teardown of the except block returns, or raises and is
\* ignored; the sleep starts.
ConnErrTeardown ==
    /\ proc = "running"
    /\ conn.pc = "err_disconnect"
    /\ conn' = [conn EXCEPT !.pc = "err_sleep", !.wake_at = clock + conn.backoff]
    /\ UNCHANGED <<clock, proc, run, gifts, weekly_top5, meta, state, sched, posts,
                   calls, result, health, flag>>

\* the sleep of line 317 ending in a call of start() with no teardown before
ConnErrSleepDoneSkippingTeardown ==
    /\ proc = "running"
    /\ conn.pc = "err_sleep"
    /\ clock >= conn.wake_at
    /\ conn' = [conn EXCEPT !.pc = "start", !.clean = conn.torn]
    /\ UNCHANGED <<clock, proc, run, gifts, weekly_top5, meta, state, sched, posts,
                   calls, result, health, flag>>

\* Line 317 ends: the loop starts over (lines 270-277).
ConnErrSleepDone ==
    /\ proc = "running"
    /\ conn.pc = "err_sleep"
    /\ clock >= conn.wake_at
    /\ conn' = [conn EXCEPT !.pc = "disconnect", !.torn = TRUE]
    /\ UNCHANGED <<clock, proc, run, gifts, weekly_top5, meta, state, sched, posts,
                   calls, result, health, flag>>

\* Line 286 ends: the try block raised nothing, so its else clause runs
\* (lines 318-321), and the loop starts over.
ConnSleepDone ==
    /\ proc = "running"
    /\ conn.pc = "sleep"
    /\ clock >= conn.wake_at
    /\ state' = [state EXCEPT !.connected = TRUE]
    /\ conn' = [conn EXCEPT !.pc = "disconnect", !.torn = TRUE]
    /\ UNCHANGED <<clock, proc, run, gifts, weekly_top5, meta, sched, posts, calls, result, health, flag>>

\* Inside client.start(): the session is established.  No statement of
\* bot.py runs on this event (the client offers no handler for it, lines
\* 323-325).
SessionEstablished ==
    /\ proc = "running"
    /\ conn.pc = "start"
    /\ ~conn.live
    /\ conn' = [conn EXCEPT !.live = TRUE]
    /\ UNCHANGED <<clock, proc, run, gifts, weekly_top5, meta, state, sched, posts,
                   calls, result, health, flag>>

(***************************************************************************)
(* health_loop (lines 247-264) and connection_flag_loop (lines 326-337).   *)
(*                                                                         *)
(* health.pc is where health_loop stands:                                  *)
(*   "sleep"       in asyncio.sleep(HEALTH_INTERVAL_SECONDS) (line 264)    *)
(*   "disconnect"  awaiting the forced client.disconnect() (line 258)      *)
(***************************************************************************)
\* lines 252 and 255
HealthForcesAnyState(connected, age) == age > STALE_CONNECTION_SECONDS

\* lines 252 and 255
HealthForces(connected, age) == connected /\ age > STALE_CONNECTION_SECONDS

\* Lines 249-258, or 249-264: one wake of health_loop up to its next await.
HealthWake ==
    /\ proc = "running"
    /\ health.pc = "sleep"
    /\ clock >= health.wake_at
    /\ LET age == clock - state.last_event_utc
       IN  health' = IF HealthForces(state.connected, age)
                     THEN [health EXCEPT !.pc = "disconnect"]
                     ELSE [health EXCEPT !.wake_at = clock + HEALTH_INTERVAL_SECONDS]
    /\ UNCHANGED <<clock, proc, run, gifts, weekly_top5, meta, state, sched, posts, conn,
                   calls, result, flag>>

\* Lines 257-264: the forced teardown returns, or raises and is ignored; an
\* established session is closed by it.
HealthTeardown ==
    /\ proc = "running"
    /\ health.pc = "disconnect"
    /\ health' = [health EXCEPT !.pc = "sleep", !.wake_at = clock + HEALTH_INTERVAL_SECONDS]
    /\ conn' = [conn EXCEPT !.live = FALSE]
    /\ UNCHANGED <<clock, proc, run, gifts, weekly_top5, meta, state, sched, posts,
                   calls, result, flag>>

\* Lines 334-337: one wake of connection_flag_loop.
FlagWake ==
    /\ proc = "running"
    /\ clock >= flag.wake_at
    /\ LET age == clock - state.last_event_utc
       IN  state' = IF age < FLAG_FRESH_SECONDS
                    THEN [state EXCEPT !.connected = TRUE]
                    ELSE state
    /\ flag' = [flag EXCEPT !.wake_at = clock + FLAG_SLEEP]
    /\ UNCHANGED <<clock, proc, run, gifts, weekly_top5, meta, sched, posts, conn,
                   calls, result, health>>

(***************************************************************************)
(* The process and the clock.                                              *)
(***************************************************************************)
\* The process is killed or has exited, and is started again: run() builds
\* its tasks and the dict state anew (lines 168-179); the tables are kept.
Restart ==
    /\ proc \in {"running", "crashed"}
    /\ run < MaxRestarts
    /\ proc' = "running"
    /\ run' = run + 1
    /\ sched' = SchedBoot(clock)
    /\ conn' = ConnBoot(clock)
    /\ state' = StateBoot(clock)
    /\ health' = HealthBoot(clock)
    /\ flag' = FlagBoot(clock)
    /\ UNCHANGED <<clock, gifts, weekly_top5, meta, posts, calls, result>>

\* The scheduler's behaviours are explored in windows of two minutes around
\* midnight, from 23:59:00 to 00:01:00: both trigger minutes lie inside.
WindowLen == 2 * MinuteLen
WindowPos(t) == (t + MinuteLen) % DayLen
FirstClock == 5 * DayLen + 23 * HourLen + 59 * MinuteLen

\* A task that is due runs before time passes, and code between two awaits
\* takes no time.
\* The webhook answers within MaxPostTicks * SCHEDULE_SLEEP seconds.
SchedLetsTimePass ==
    \/ proc # "running"
    \/ /\ sched.pc \in {"daily_post", "final_post"}
       /\ clock < sched.wake_at + MaxPostTicks * SCHEDULE_SLEEP
    \/ sched.pc = "sleep" /\ clock < sched.wake_at

\* SCHEDULE_SLEEP seconds pass.
Tick ==
    /\ proc # "aborted"
    /\ SchedLetsTimePass
    /\ WindowPos(clock) + SCHEDULE_SLEEP <= WindowLen
    /\ clock' = clock + SCHEDULE_SLEEP
    /\ UNCHANGED <<proc, run, gifts, weekly_top5, meta, state, sched, posts, conn,
                   calls, result, health, flag>>

\* The rest of the day passes, up to the next window.
NextWindow ==
    /\ proc # "aborted"
    /\ proc = "running" => sched.pc = "sleep" /\ clock < sched.wake_at
    /\ WindowPos(clock) = WindowLen
    /\ (clock + DayLen - WindowLen) \div DayLen <= MaxDay
    /\ clock' = clock + DayLen - WindowLen
    /\ UNCHANGED <<proc, run, gifts, weekly_top5, meta, state, sched, posts, conn,
                   calls, result, health, flag>>

(***************************************************************************)
(* The scheduler with the store: schedule_loop, gift callbacks, restarts.  *)
(* The connection manager is not stepped here; a callback may arrive       *)
(* whenever the scheduler is suspended.                                    *)
(***************************************************************************)
Rose(u) ==
    [unique_id |-> u, nickname |-> <<>>, name |-> <<"r">>, diamond_count |-> 1,
     repeat_count |-> 1, repeat_total |-> 0]

\* The first gifter is a; the gifters are interchangeable.
GiftsAtScheduler ==
    { Rose(u) : u \in IF gifts = <<>> THEN {<<"a">>} ELSE {<<"a">>, <<"b">>} }

\* Table gifts when the first window opens: empty, or holding the row of a
\* gift that a sent at noon of the same day.
EarlierClock == FirstClock - 12 * HourLen + MinuteLen
EarlierGifts == { <<>>, <<GiftRow(Rose(<<"a">>), week_id_at(EarlierClock), EarlierClock)>> }

GiftArrives ==
    /\ sched.pc \in {"sleep", "daily_post", "final_post"}
    /\ Cardinality({c \in calls : c.ts >= FirstClock}) < MaxCalls
    /\ \E e \in GiftsAtScheduler : on_gift(e)

Init ==
    /\ clock = FirstClock
    /\ \E streamer \in EnvStreamer, webhook \in EnvWebhook :
          proc = IF ConfigAccepted(streamer, webhook) THEN "running" ELSE "aborted"
    /\ run = 0
    /\ gifts \in EarlierGifts
    /\ weekly_top5 = {}
    /\ meta = NoMeta
    /\ state = StateBoot(FirstClock)
    /\ sched = SchedBoot(FirstClock)
    /\ posts = <<>>
    /\ conn = ConnBoot(FirstClock)
    /\ health = HealthBoot(FirstClock)
    /\ flag = FlagBoot(FirstClock)
    /\ calls = {Call(gifts[i]) : i \in DOMAIN gifts}
    /\ result = [week_id |-> <<>>, rows |-> <<>>]

\* One life of the process: no restart.
NextRun ==
    \/ SchedWake
    \/ DailyPostReply
    \/ DailyMark
    \/ FinalPostReply
    \/ FinalMark
    \/ GiftArrives
    \/ Tick
    \/ NextWindow

SpecRun == Init /\ [][NextRun]_vars

Next ==
    \/ SchedWake
    \/ DailyPostReply
    \/ DailyMark
    \/ FinalPostReply
    \/ FinalMark
    \/ GiftArrives
    \/ Restart
    \/ Tick
    \/ NextWindow

Spec == Init /\ [][Next]_vars

(***************************************************************************)
(* The claims about the scheduler.                                         *)
(***************************************************************************)
FinalMinute(t) ==
    isoweekday(t) = 7 /\ hour(t) = SUNDAY_FINAL_HOUR /\ minute(t) = SUNDAY_FINAL_MINUTE

DailyMinute(t) == hour(t) = DAILY_POST_HOUR /\ minute(t) = DAILY_POST_MINUTE

SamePost(kind, i, j) ==
    /\ i < j
    /\ posts[i].kind = kind
    /\ posts[j].kind = kind
    /\ posts[i].id = posts[j].id

\* C1, as claimed: the webhook never accepts the final message twice for the
\* same period id, whatever the wakes and wherever a restart falls.
C1_FinalPostedOncePerPeriod ==
    \A i, j \in DOMAIN posts : ~SamePost("final", i, j)

\* C1, amended: the final message is never accepted twice for the same
\* period id within one life of the process, nor again once last_final has
\* been written for that post; a second post for the period follows only a
\* restart that fell between the accepted post and the write of last_final.
C1_FinalRepostedOnlyAfterLostMarker ==
    \A i, j \in DOMAIN posts :
        SamePost("final", i, j) => ~posts[i].marked /\ posts[i].run < posts[j].run

\* A restarted process has woken in the final minute of a period whose final
\* post an earlier life made and marked, and has gone back to sleep.
C1_Witness ==
    /\ sched.pc = "sleep"
    /\ FinalMinute(sched.now)
    /\ \E i \in DOMAIN posts :
          /\ posts[i].kind = "final"
          /\ posts[i].id = sched.week_id
          /\ posts[i].marked
          /\ posts[i].run < run

\* C2: within one life of the process the webhook never accepts the
\* in-progress message twice for the same local date, however often the loop
\* wakes in the trigger minute.
C2_DailyPostedOncePerDate ==
    \A i, j \in DOMAIN posts : ~SamePost("daily", i, j)

\* The last wake fell in the trigger minute of a date whose in-progress post
\* was already made and marked: the wake went back to sleep without posting.
C2_Witness ==
    /\ sched.pc = "sleep"
    /\ DailyMinute(sched.now)
    /\ meta_get(sched.meta0, "last_daily") = date_isoformat(sched.now)
    /\ \E i \in DOMAIN posts :
          posts[i].kind = "daily" /\ posts[i].id = date_isoformat(sched.now)

\* C3: when discord_post raises for a status >= 300, the marker of that
\* trigger holds what it held when the wake began.
C3_FailedPostLeavesMarker ==
    /\ sched.pc = "daily_raised" =>
          /\ sched.status >= 300
          /\ meta_get(meta, "last_daily") = meta_get(sched.meta0, "last_daily")
    /\ sched.pc = "final_raised" =>
          /\ sched.status >= 300
          /\ meta_get(meta, "last_final") = meta_get(sched.meta0, "last_final")

\* The final post has failed in a store that already holds a last_daily marker.
C3_Witness ==
    /\ sched.pc = "final_raised"
    /\ meta_get(meta, "last_daily") # <<>>
    /\ meta_get(meta, "last_final") = <<>>

\* C4, as claimed: after a failed post the scheduler keeps polling, so that
\* its next matching wake attempts the post again.
C4_SchedulerPollsAfterFailedPost ==
    sched.status >= 300 => proc = "running" /\ sched.pc = "sleep"

\* C5, as claimed: no failure at run time ends the process; only the
\* configuration check at start-up does.
C5_NoRuntimeFailureEndsProcess ==
    proc # "crashed"

\* C8, as claimed: once snapshot rows exist for a period, no step changes
\* the rows of that period: none is overwritten, none is added.
C8_FinalizeIdempotent ==
    [][\A w \in {r.week_id : r \in weekly_top5} :
          {r \in weekly_top5' : r.week_id = w} = {r \in weekly_top5 : r.week_id = w}]_vars

(***************************************************************************)
(* The ingestor by the second: gift callbacks around the end of week 1,    *)
(* from Sunday 23:59:58 on, in a process that may be restarted.            *)
(***************************************************************************)
IngestFirstClock == WeekLen - 2

\* The raw events delivered: each branch of the normalisation of lines
\* 184-187 is taken by one of them.  A nickname may hold the "|" that
\* make_event_key separates its fields with; the gift names are names of the
\* platform's catalogue, which hold none, so that the text of a key has one
\* reading.
GiftsAtIngestor ==
    { [unique_id |-> <<"a">>, nickname |-> <<"n">>, name |-> <<"r">>,
       diamond_count |-> 1, repeat_count |-> 1, repeat_total |-> 3],
      [unique_id |-> <<>>, nickname |-> <<"a", "|", "r">>, name |-> <<"r">>,
       diamond_count |-> 1, repeat_count |-> 0, repeat_total |-> 1],
      [unique_id |-> <<"a", "r">>, nickname |-> <<>>, name |-> <<"r">>,
       diamond_count |-> 2, repeat_count |-> 1, repeat_total |-> 0],
      [unique_id |-> <<>>, nickname |-> <<>>, name |-> <<>>,
       diamond_count |-> 0, repeat_count |-> 0, repeat_total |-> 0],
      [unique_id |-> <<"a">>, nickname |-> <<>>, name |-> <<"r">>,
       diamond_count |-> 1, repeat_count |-> 0, repeat_total |-> 3] }

GiftCallback ==
    /\ Cardinality(calls) < MaxIngestCalls
    /\ \E e \in GiftsAtIngestor : on_gift(e)

\* One second passes.
TickSecond ==
    /\ proc = "running"
    /\ clock < IngestFirstClock + MaxIngestSeconds
    /\ clock' = clock + 1
    /\ UNCHANGED <<proc, run, gifts, weekly_top5, meta, state, sched, posts, conn,
                   calls, result, health, flag>>

InitIngest ==
    /\ clock = IngestFirstClock
    /\ proc = "running"
    /\ run = 0
    /\ gifts = <<>>
    /\ weekly_top5 = {}
    /\ meta = NoMeta
    /\ state = StateBoot(IngestFirstClock)
    /\ sched = SchedBoot(IngestFirstClock)
    /\ posts = <<>>
    /\ conn = ConnBoot(IngestFirstClock)
    /\ health = HealthBoot(IngestFirstClock)
    /\ flag = FlagBoot(IngestFirstClock)
    /\ calls = {}
    /\ result = [week_id |-> <<>>, rows |-> <<>>]

NextIngest ==
    \/ GiftCallback
    \/ TickSecond
    \/ Restart

SpecIngest == InitIngest /\ [][NextIngest]_vars

(***************************************************************************)
(* The claims about the ingestor.                                          *)
(***************************************************************************)
\* floor(unix_seconds / 2) of a receive timestamp
TwoSecondBucket(ts) == (UnixAtZero + ts) \div 2

SameGift(c, d) ==
    /\ c.week_id = d.week_id
    /\ c.user = d.user
    /\ c.gift_name = d.gift_name
    /\ c.diamonds = d.diamonds
    /\ c.amount = d.amount

\* the stored rows that hold the gift of callback c in the bucket of c
RowsOf(c) ==
    { i \in DOMAIN gifts :
        /\ SameGift(Call(gifts[i]), c)
        /\ TwoSecondBucket(gifts[i].created_at_utc) = TwoSecondBucket(c.ts) }

\* C6: two callbacks with the same period id, gifter, gift name, value units
\* and quantity, received in the same 2-second bucket, leave exactly one
\* stored row for them.
C6_SameBucketOneRow ==
    \A c, d \in calls :
        (SameGift(c, d) /\ TwoSecondBucket(c.ts) = TwoSecondBucket(d.ts))
            => Cardinality(RowsOf(c)) = 1

\* Two callbacks for the same gift were received in different seconds of
\* one bucket, the second one by a restarted process.
C6_Witness ==
    /\ run = 1
    /\ \E c, d \in calls :
          /\ SameGift(c, d)
          /\ c.ts # d.ts
          /\ TwoSecondBucket(c.ts) = TwoSecondBucket(d.ts)
          /\ state.last_event_utc = d.ts
          /\ d.ts > c.ts

\* C7: two callbacks received in different 2-second buckets are stored as
\* two distinct rows, also when they are for the same gift.
C7_DifferentBucketsTwoRows ==
    \A c, d \in calls :
        TwoSecondBucket(c.ts) # TwoSecondBucket(d.ts)
            => \E i \in RowsOf(c), j \in RowsOf(d) : i # j

\* Two callbacks for the same gift were received in adjacent seconds that
\* lie in different buckets.
C7_Witness ==
    \E c, d \in calls :
        /\ SameGift(c, d)
        /\ d.ts = c.ts + 1
        /\ TwoSecondBucket(c.ts) # TwoSecondBucket(d.ts)

(***************************************************************************)
(* The connection manager alone: connect_loop against a client whose       *)
(* start() returns or raises.  Time passes while the loop sleeps.          *)
(***************************************************************************)
\* The sleep of line 286 or line 317 runs to its end.
ConnTick ==
    /\ proc = "running"
    /\ conn.pc \in {"sleep", "err_sleep"}
    /\ clock < conn.wake_at
    /\ conn.wake_at <= MaxConnClock
    /\ clock' = conn.wake_at
    /\ UNCHANGED <<proc, run, gifts, weekly_top5, meta, state, sched, posts, conn,
                   calls, result, health, flag>>

InitConn ==
    /\ clock = 0
    /\ proc = "running"
    /\ run = 0
    /\ gifts = <<>>
    /\ weekly_top5 = {}
    /\ meta = NoMeta
    /\ state = StateBoot(0)
    /\ sched = SchedBoot(0)
    /\ posts = <<>>
    /\ conn = ConnBoot(0)
    /\ health = HealthBoot(0)
    /\ flag = FlagBoot(0)
    /\ calls = {}
    /\ result = [week_id |-> <<>>, rows |-> <<>>]

NextConn ==
    \/ ConnTeardown
    \/ ConnEnded
    \/ \E msg \in ErrorTexts : ConnError(msg)
    \/ ConnErrTeardown
    \/ ConnErrSleepDone
    \/ ConnSleepDone
    \/ ConnTick

SpecConn == InitConn /\ [][NextConn]_vars

(***************************************************************************)
(* The claims about the connection manager.                                *)
(***************************************************************************)
SaysOffline(low) == Contains(low, <<"o", "f", "f", "l", "i", "n", "e">>)

SaysUpstream(low) ==
    \/ Contains(low, <<"s", "i", "g", "n">>)
    \/ Contains(low, <<"5", "0", "4">>)
    \/ Contains(low, <<"s", "t", "a", "t", "u", "s", " ", "c", "o", "d", "e", " ", "5", "0", "0">>)

SaysOneConnection(low) ==
    Contains(low, <<"o", "n", "e", " ", "c", "o", "n", "n", "e", "c", "t", "i", "o", "n">>)

\* C9: after a session error the backoff is the base offline interval if the
\* lower-cased text holds "offline"; else min(600, max(60, 2 * previous)) if
\* it holds "sign", "504" or "status code 500"; else 10 if it holds "one
\* connection"; else the generic error interval.
C9_BackoffByClassification ==
    conn.pc \in {"err_disconnect", "err_sleep"} =>
        LET low == lower(conn.msg)
            doubled == IF 2 * conn.prev < 60 THEN 60
                       ELSE IF 2 * conn.prev > 600 THEN 600 ELSE 2 * conn.prev
        IN  /\ SaysOffline(low) => conn.backoff = OFFLINE_RETRY_SECONDS
            /\ (~SaysOffline(low) /\ SaysUpstream(low)) => conn.backoff = doubled
            /\ (~SaysOffline(low) /\ ~SaysUpstream(low) /\ SaysOneConnection(low))
                  => conn.backoff = 10
            /\ (~SaysOffline(low) /\ ~SaysUpstream(low) /\ ~SaysOneConnection(low))
                  => conn.backoff = ERROR_RETRY_SECONDS

\* A third upstream error in a row has met the cap: 480 is doubled to 600.
C9_Witness ==
    /\ conn.pc = "err_sleep"
    /\ SaysUpstream(lower(conn.msg))
    /\ ~SaysOffline(lower(conn.msg))
    /\ conn.prev = 480
    /\ conn.backoff = 600

(***************************************************************************)
(* The aggregator alone: top5_week over tables of up to NumGifters         *)
(* gifters of week 1, each with no row or one row worth 1 or 2.            *)
(***************************************************************************)
GifterName(i) == <<"g">> \o Dec(i)

AggClock(i) == IngestFirstClock - 2 * (NumGifters + 1) + 2 * i

AggGift(i, d) ==
    GiftRow([unique_id |-> GifterName(i), nickname |-> <<>>, name |-> <<"r">>,
             diamond_count |-> d, repeat_count |-> 1, repeat_total |-> 0],
            week_id_at(AggClock(i)), AggClock(i))

RECURSIVE AggTable(_, _)
AggTable(f, n) ==
    IF n = 0 THEN <<>>
    ELSE IF f[n] = 0 THEN AggTable(f, n - 1)
    ELSE Append(AggTable(f, n - 1), AggGift(n, f[n]))

AggTables == { AggTable(f, NumGifters) : f \in [1..NumGifters -> {0, 1, 2}] }

\* A query of the leaderboard of one week.
AggQuery ==
    /\ proc = "running"
    /\ \E week_id \in {week_id_at(IngestFirstClock), week_id_at(IngestFirstClock + 2)} :
       \E rows \in top5_week(gifts, week_id) :
          result' = [week_id |-> week_id, rows |-> rows]
    /\ UNCHANGED <<clock, proc, run, gifts, weekly_top5, meta, state, sched, posts, conn,
                   calls, health, flag>>

InitAgg ==
    /\ clock = IngestFirstClock
    /\ proc = "running"
    /\ run = 0
    /\ gifts \in AggTables
    /\ weekly_top5 = {}
    /\ meta = NoMeta
    /\ state = StateBoot(IngestFirstClock)
    /\ sched = SchedBoot(IngestFirstClock)
    /\ posts = <<>>
    /\ conn = ConnBoot(IngestFirstClock)
    /\ health = HealthBoot(IngestFirstClock)
    /\ flag = FlagBoot(IngestFirstClock)
    /\ calls = {Call(gifts[i]) : i \in DOMAIN gifts}
    /\ result = [week_id |-> <<>>, rows |-> <<>>]

NextAgg == AggQuery

SpecAgg == InitAgg /\ [][NextAgg]_vars

(***************************************************************************)
(* The claims about the aggregator.                                        *)
(***************************************************************************)
\* the id of the first row of gifter u in the week of the last query
FirstRow(u) ==
    CHOOSE i \in DOMAIN gifts :
        /\ gifts[i].gifter_username = u
        /\ gifts[i].week_id = result.week_id
        /\ \A j \in DOMAIN gifts :
              (gifts[j].gifter_username = u /\ gifts[j].week_id = result.week_id) => i <= j

alice == <<"a", "l", "i", "c", "e">>
bob == <<"b", "o", "b">>

SumGift(u, d, q) ==
    [unique_id |-> u, nickname |-> <<>>, name |-> <<"r", "o", "s", "e">>,
     diamond_count |-> d, repeat_count |-> q, repeat_total |-> 0]

GiftsAtTotals == { SumGift(alice, 1, 1), SumGift(bob, 1, 5), SumGift(alice, 2, 3) }

\* the receive time of row k of a table whose first j rows fall in week 5
SumClock(k, j) == 5 * WeekLen + 2 * (k - j - 1)

SumTable(f, j) ==
    [k \in DOMAIN f |-> GiftRow(f[k], week_id_at(SumClock(k, j)), SumClock(k, j))]

SumTables ==
    UNION { { SumTable(f, j) : f \in [1..n -> GiftsAtTotals], j \in 0..n } : n \in 1..MaxSumRows }

\* A query of the leaderboard of week 5 or week 6.
TotalsQuery ==
    /\ proc = "running"
    /\ \E week_id \in {week_id_at(SumClock(0, 0)), week_id_at(SumClock(1, 0))} :
       \E rows \in top5_week(gifts, week_id) :
          result' = [week_id |-> week_id, rows |-> rows]
    /\ UNCHANGED <<clock, proc, run, gifts, weekly_top5, meta, state, sched, posts, conn,
                   calls, health, flag>>

InitTotals ==
    /\ clock = SumClock(MaxSumRows, 0)
    /\ proc = "running"
    /\ run = 0
    /\ gifts \in SumTables
    /\ weekly_top5 = {}
    /\ meta = NoMeta
    /\ state = StateBoot(clock)
    /\ sched = SchedBoot(clock)
    /\ posts = <<>>
    /\ conn = ConnBoot(clock)
    /\ health = HealthBoot(clock)
    /\ flag = FlagBoot(clock)
    /\ calls = {Call(gifts[i]) : i \in DOMAIN gifts}
    /\ result = [week_id |-> <<>>, rows |-> <<>>]

NextTotals == TotalsQuery

SpecTotals == InitTotals /\ [][NextTotals]_vars

\* value_units * quantity summed over the first n stored rows of gifter u in
\* period w
RECURSIVE PeriodTotal(_, _, _)
PeriodTotal(u, w, n) ==
    IF n = 0 THEN 0
    ELSE PeriodTotal(u, w, n - 1)
         + (IF gifts[n].gifter_username = u /\ gifts[n].week_id = w
            THEN gifts[n].diamonds * gifts[n].amount ELSE 0)

\* the table of the example: three (alice, 1, 1) rows and one (bob, 1, 5) row
\* of 2024-W05
ExampleTable ==
    /\ Len(gifts) = 4
    /\ \A k \in 1..4 :
          /\ gifts[k].week_id = <<"2", "0", "2", "4", "-", "W", "0", "5">>
          /\ gifts[k].diamonds = 1
    /\ Cardinality({k \in 1..4 : gifts[k].gifter_username = alice /\ gifts[k].amount = 1}) = 3
    /\ Cardinality({k \in 1..4 : gifts[k].gifter_username = bob /\ gifts[k].amount = 5}) = 1

\* C11: each total returned for a period is the sum of value_units * quantity
\* over that gifter's stored rows of that period, rows of other periods left
\* out; the table of the example gives [(bob, 5), (alice, 3)] for 2024-W05.
C11_TotalsOfThePeriodOnly ==
    /\ \A i \in DOMAIN result.rows :
          result.rows[i][2] = PeriodTotal(result.rows[i][1], result.week_id, Len(gifts))
    /\ (ExampleTable /\ result.week_id = <<"2", "0", "2", "4", "-", "W", "0", "5">>)
          => result.rows = << <<bob, 5>>, <<alice, 3>> >>

\* The leaderboard of week 5 was read from a table in which a gifter has two
\* rows of week 5 and a row of week 6.
C11_Witness ==
    /\ result.week_id = <<"2", "0", "2", "4", "-", "W", "0", "5">>
    /\ \E i \in DOMAIN result.rows :
          /\ Cardinality({k \in DOMAIN gifts : /\ gifts[k].gifter_username = result.rows[i][1]
                                                /\ gifts[k].week_id = result.week_id}) = 2
          /\ \E k \in DOMAIN gifts : /\ gifts[k].gifter_username = result.rows[i][1]
                                      /\ gifts[k].week_id # result.week_id

(***************************************************************************)
(* The claim about the rows of the final message.                          *)
(***************************************************************************)
\* finalized_top_n: the snapshot rows stored for period w, ordered by rank
SnapshotRows(w) ==
    LET R == {r \in weekly_top5 : r.week_id = w}
    IN  [i \in 1..Cardinality(R) |->
            LET r == CHOOSE x \in R : x.rank = i
            IN  <<r.gifter_username, r.total_diamonds>>]

\* the entries of a list of rows, and its totals rank by rank: two lists
\* that differ only in the order of entries with equal totals agree in both
Entries(rows) == {rows[i] : i \in DOMAIN rows}
Totals(rows) == [i \in DOMAIN rows |-> rows[i][2]]

\* C12, as claimed: when the webhook has accepted a final message, its rows
\* are the snapshot rows stored for that period, also when a snapshot of the
\* period existed before the wake.  (Rows are compared up to the order of
\* entries with equal totals.)
C12_FinalPostedFromSnapshot ==
    sched.pc = "final_mark" =>
        LET p == posts[Len(posts)]
        IN  /\ p.kind = "final"
            /\ Entries(p.rows) = Entries(SnapshotRows(p.week_id))
            /\ Totals(p.rows) = Totals(SnapshotRows(p.week_id))

(***************************************************************************)
(* The link: connect_loop, health_loop, connection_flag_loop and the gift  *)
(* callback against one client.  A gift is delivered only to an            *)
(* established session.                                                    *)
(***************************************************************************)
\* the times at which a sleeping loop is due
LinkTimers ==
    {health.wake_at : x \in {y \in {1} : health.pc = "sleep"}}
        \cup {flag.wake_at}
        \cup {conn.wake_at : x \in {y \in {1} : conn.pc \in {"sleep", "err_sleep"}}}

\* Time passes up to the next moment at which a sleep ends.  A loop that is
\* due runs first, and a teardown returns before a sleep ends.
LinkTick ==
    /\ proc = "running"
    /\ conn.pc \in {"start", "sleep", "err_sleep"}
    /\ health.pc = "sleep"
    /\ \A t \in LinkTimers : t > clock
    /\ LET next == CHOOSE t \in LinkTimers : \A u \in LinkTimers : t <= u
       IN  /\ next <= MaxLinkClock
           /\ clock' = next
    /\ UNCHANGED <<proc, run, gifts, weekly_top5, meta, state, sched, posts, conn,
                   calls, result, health, flag>>

\* the texts of the exceptions of the sessions explored here
LinkErrorTexts == {TextOffline, TextTimeout, TextDiskFull}

LinkGift ==
    /\ conn.pc = "start"
    /\ conn.live
    /\ Cardinality(calls) < MaxLinkGifts
    /\ on_gift(Rose(<<"a">>))

InitLink ==
    /\ clock = 0
    /\ proc = "running"
    /\ run = 0
    /\ gifts = <<>>
    /\ weekly_top5 = {}
    /\ meta = NoMeta
    /\ state = StateBoot(0)
    /\ sched = SchedBoot(0)
    /\ posts = <<>>
    /\ conn = ConnBoot(0)
    /\ health = HealthBoot(0)
    /\ flag = FlagBoot(0)
    /\ calls = {}
    /\ result = [week_id |-> <<>>, rows |-> <<>>]

NextLink ==
    \/ ConnTeardown
    \/ SessionEstablished
    \/ ConnEnded
    \/ \E msg \in LinkErrorTexts : ConnError(msg)
    \/ ConnErrTeardown
    \/ ConnErrSleepDone
    \/ ConnSleepDone
    \/ HealthWake
    \/ HealthTeardown
    \/ FlagWake
    \/ LinkGift
    \/ LinkTick

SpecLink == InitLink /\ [][NextLink]_vars

(***************************************************************************)
(* The claims about the link.                                              *)
(***************************************************************************)
\* C13, as claimed: while a session is established, connected is true and
\* the backoff holds the base offline interval.
C13_LiveSessionLinkedAtBase ==
    (conn.pc = "start" /\ conn.live) =>
        state.connected /\ conn.backoff = OFFLINE_RETRY_SECONDS

\* C14, as claimed: from the moment start() returns without error until a
\* new session is established, connected is false and the backoff holds the
\* base offline interval.
C14_CleanEndKeepsUnlinked ==
    (conn.last = "ended" /\ ~conn.live) =>
        ~state.connected /\ conn.backoff = OFFLINE_RETRY_SECONDS

\* C15: health_loop starts a forced teardown only on a wake that finds
\* connected true and the last event more than STALE_CONNECTION_SECONDS old,
\* and no step of the forced teardown changes the backoff, last_event_utc or
\* a table.
C15_ForcedTeardownFrame ==
    [][/\ (health.pc = "sleep" /\ health'.pc = "disconnect")
            => /\ state.connected
               /\ clock - state.last_event_utc > STALE_CONNECTION_SECONDS
       /\ (health' # health /\ (health.pc = "disconnect" \/ health'.pc = "disconnect"))
            => /\ conn'.backoff = conn.backoff
               /\ state'.last_event_utc = state.last_event_utc
               /\ gifts' = gifts
               /\ weekly_top5' = weekly_top5
               /\ meta' = meta]_vars

\* health_loop is forcing the teardown of an established session while the
\* backoff holds the value the last error left.
C15_Witness ==
    /\ health.pc = "disconnect"
    /\ conn.pc = "start"
    /\ conn.live
    /\ conn.backoff = ERROR_RETRY_SECONDS

\* C16: every call of start() is made right after the teardown of line 277
\* of the same iteration, whatever health_loop does in between.
C16_StartFollowsTeardown ==
    conn.pc = "start" => conn.clean

\* start() has been called again after an error, while health_loop is
\* forcing a teardown of its own.
C16_Witness ==
    /\ conn.pc = "start"
    /\ conn.last = "error"
    /\ conn.clean
    /\ health.pc = "disconnect"

(***************************************************************************)
(* The connection manager under fair scheduling.  The event loop resumes a *)
(* task whose await has completed, a teardown comes back (or raises), and  *)
(* a sleep ends when its time has passed; a session may stay up for ever.  *)
(* Sessions end or fail up to MaxConnClock; after that they stay up.       *)
(***************************************************************************)
\* The sleep of line 286 or line 317 runs to its end.
ConnSleeps ==
    /\ proc = "running"
    /\ conn.pc \in {"sleep", "err_sleep"}
    /\ clock < conn.wake_at
    /\ clock' = conn.wake_at
    /\ UNCHANGED <<proc, run, gifts, weekly_top5, meta, state, sched, posts, conn,
                   calls, result, health, flag>>

SessionEnds == clock <= MaxConnClock /\ ConnEnded

SessionFails == clock <= MaxConnClock /\ \E msg \in ErrorTexts : ConnError(msg)

NextConnFair ==
    \/ ConnTeardown
    \/ SessionEnds
    \/ SessionFails
    \/ ConnErrTeardown
    \/ ConnErrSleepDone
    \/ ConnSleepDone
    \/ ConnSleeps

SpecConnFair ==
    /\ InitConn
    /\ [][NextConnFair]_vars
    /\ WF_vars(ConnTeardown)
    /\ WF_vars(ConnErrTeardown)
    /\ WF_vars(ConnErrSleepDone)
    /\ WF_vars(ConnSleepDone)
    /\ WF_vars(ConnSleeps)

\* C17: after an error the manager tears the session down, sleeps exactly
\* the backoff it chose and goes back to connecting; every state after an
\* error or a clean end is followed by a new call of start().
C17_EveryFailureLeadsToNewAttempt ==
    /\ [][/\ (conn.pc = "err_disconnect" /\ conn'.pc # "err_disconnect")
               => conn'.pc = "err_sleep" /\ conn'.wake_at = clock + conn.backoff
          /\ (conn.pc = "err_sleep" /\ conn'.pc # "err_sleep")
               => conn'.pc = "disconnect" /\ clock = conn.wake_at]_vars
    /\ (conn.pc \in {"sleep", "err_disconnect", "err_sleep"}) ~> (conn.pc = "start")

\* start() has been called again at the end of a sleep of 600 seconds that
\* followed a third upstream error in a row.
C17_Witness ==
    /\ conn.pc = "start"
    /\ conn.last = "error"
    /\ conn.backoff = max_backoff
    /\ conn.prev = 480
    /\ clock = conn.wake_at

(***************************************************************************)
(* The claim about the liveness stamp of the ingestor.                     *)
(***************************************************************************)
\* C18: every gift callback, whether its row was inserted or ignored, sets
\* last_event_utc to the timestamp at which the callback received the gift.
C18_EveryCallbackStampsLastEvent ==
    [][\A c \in calls' \ calls : state'.last_event_utc = c.ts]_vars

\* In one life of the process a callback was ignored as a duplicate of a gift
\* stored a second earlier, and last_event_utc is the time of that callback.
C18_Witness ==
    /\ run = 0
    /\ \E c, d \in calls :
          /\ SameGift(c, d)
          /\ d.ts < c.ts
          /\ state.last_event_utc = c.ts
          /\ \A i \in DOMAIN gifts : gifts[i].created_at_utc # c.ts

(***************************************************************************)
(* The claims about the scheduler's clock.                                 *)
(***************************************************************************)
\* the trigger minutes that begin after the local time t read by the last
\* wake and end no later than u, the time of the next wake
TriggerMinutesBetween(t, u) ==
    { m \in (t + 1)..(u - MinuteLen) :
        m % MinuteLen = 0 /\ (DailyMinute(m) \/ FinalMinute(m)) }

\* C19, as claimed: while the process runs, no trigger minute lies wholly
\* between the local time one wake read and the next wake: some wake
\* observes every trigger minute.
C19_TriggerMinuteObserved ==
    (proc = "running" /\ sched.pc = "sleep" /\ sched.week_id # <<>>)
        => TriggerMinutesBetween(sched.now, sched.wake_at) = {}

\* C20, as claimed: the period that the final trigger finalizes, posts and
\* marks is the period of the local time that met the trigger condition.
C20_FinalPeriodIsPeriodOfTrigger ==
    sched.pc \in {"final_post", "final_mark", "final_raised"}
        => sched.week_id = week_id_at(sched.now)

====
